---- MODULE Spec2Model ----
(***************************************************************************)
(* Model of the cog Predictor (pkg/predict/predictor.go) and of the model  *)
(* server's upload handler (pkg/server/server.go).                         *)
(*                                                                         *)
(* Two state machines share the module:                                    *)
(*   SpecP / FairSpecP  one Predictor instance, its container(s), the     *)
(*                      log-following goroutine and the readiness loop;    *)
(*   SpecS              the upload handler, one goroutine per request,     *)
(*                      and its collaborators (CloudBuild, AI Platform,    *)
(*                      storage, database).                                *)
(*                                                                         *)
(* Conventions: the empty container ID "" is 0, the zero port is 0, a nil  *)
(* error is the empty sequence << >>, an error is the sequence of the      *)
(* pieces its text is formatted from.  Time is counted in ticks of the     *)
(* readiness loop's sleep (100 ms).                                        *)
(***************************************************************************)
EXTENDS Integers, Sequences, FiniteSets, TLC

\* ------------------------------------------------------------------ bounds
\* global.StartupTimeout, in ticks (its value is set outside these files)
StartupTimeout == 2
\* calls to Start on the one Predictor instance
MaxStarts == 2

\* the clock is capped this far past the deadline
MaxElapsed == StartupTimeout + 3
\* time.Sleep(100 * time.Millisecond) is one tick
SleepTicks == 1

\* ---------------------------------------------------------- Predictor state
VARIABLES
    pc,            \* where the caller of the Predictor is: idle or a point of Start
    port,          \* p.port
    containerID,   \* p.containerID (0 is "")
    ports,         \* p.runOptions.Ports, the host ports appended so far
    cstate,        \* container runtime: state of each container
    elapsed,       \* time.Now().Sub(start) of the running readiness loop
    iterStart,     \* now.Sub(start) as read by the current iteration's deadline check
    iter,          \* iterations of the readiness loop begun by the current Start
    probeIter,     \* the iteration that issued the latest probe (0: none)
    lastInspect,   \* what the latest docker.ContainerInspect of this Start reported
    lastProbe,     \* outcome of the latest probe of this Start
    exitSeen,      \* the launched container exited or died before Start returned
    starts,        \* calls to Start so far
    startCalls,    \* the external calls the latest Start has made, in order
    startResult,   \* what the latest Start returned
    lifecycle,     \* Created, Starting, Running, Failed, Stopped (section 4.1)
    logTask,       \* the goroutine following the container logs
    warned,        \* console.Warnf was called by the log goroutine
    stopResult,    \* what Stop returned, when it is the latest call ("none" otherwise)
    predictResult  \* what Predict did and returned, when it is the latest call

pvars == <<pc, port, containerID, ports, cstate, elapsed, iterStart, iter,
           probeIter, lastInspect, lastProbe, exitSeen, starts, startCalls,
           startResult, lifecycle, logTask, warned, stopResult, predictResult>>

\* ------------------------------------------------------------- server state
\* upload requests handled, each on its own goroutine
MaxUploads == 2
Uploads == 1..MaxUploads

VARIABLES
    req,        \* per request: its input, the locals of ReceiveModel, its outcome
    built,      \* CloudBuild: the image tags built
    deployed,   \* AI Platform: the image tags deployed
    storage,    \* the storage bucket: objects [path, bytes]
    db          \* the models table: rows [id, name, hash, path, tag]

svars == <<req, built, deployed, storage, db>>
vars == <<pvars, svars>>


FreePorts == {5000}
ContainerIDs == 1..MaxStarts
LoopPcs == {"check", "sleep", "inspect", "probe", "probing"}
StartPcs == {"run", "spawn"} \cup LoopPcs

\* an HTTP call that failed before any status was received; no call yet
ConnErr == 0
NoProbe == -1

Min(a, b) == IF a < b THEN a ELSE b

\* ------------------------------------------------------------- error values
NoError == << >>
ErrBadRequest == <<"Bad request">>
ErrBadRequestMsg(m) == <<"Bad request: ", m>>
ErrBadRequestDecode(e) ==
    <<"/predict call return status 400, and the response body failed to decode: ", e>>
\* %d of a status code
Itoa(code) ==
    CASE code = 200 -> "200" [] code = 400 -> "400"
      [] code = 404 -> "404" [] code = 500 -> "500" [] code = 503 -> "503"
      [] OTHER -> "0"
ErrStatus(code) == <<"/predictions call returned status ", Itoa(code)>>
ErrDecodePrediction(e) == <<"Failed to decode prediction response: ", e>>
ErrPost(e) == <<"Failed to POST HTTP request to ", e>>
ErrNewRequest(e) == <<"Failed to create HTTP request to ", e>>
ErrToMap == <<"inputs.toMap">>
ErrMarshal == <<"json.Marshal">>

\* the text of an error contains the piece m
Contains(err, m) == \E i \in 1..Len(err) : err[i] = m

\* ------------------------------------------------------- readiness loop
\* predictor.go:77  if now.Sub(start) > global.StartupTimeout
DeadlinePassed(e) == e > StartupTimeout

\* predictor.go:87  cont.State != nil && (Status == "exited" || Status == "dead")
\* report is "nil" when cont.State is nil, else the status string
HasCrashed_OnlyExited(report) == report = "exited"
HasCrashed(report) == report # "nil" /\ (report = "exited" \/ report = "dead")

\* predictor.go:95  resp.StatusCode != http.StatusOK  (the probe is ready on 200 only)
ProbeReady_AnyStatus(outcome) == outcome >= 200
ProbeReady(outcome) == outcome = 200

\* bodies the container can send: nothing, text that is not JSON, or a JSON
\* object with or without a "message" member
EmptyBody == [json |-> "empty", hasMessage |-> FALSE, message |-> ""]
InvalidBody == [json |-> "invalid", hasMessage |-> FALSE, message |-> ""]
ObjectBody(has, m) == [json |-> "object", hasMessage |-> has, message |-> m]
Bodies == {EmptyBody, InvalidBody, ObjectBody(FALSE, ""), ObjectBody(TRUE, ""),
           ObjectBody(TRUE, "bad input")}
PredictStatuses == {200, 400, 404, 500}

\* json.NewDecoder(resp.Body).Decode(&v): the error, "" when it decodes
DecodeError(body) ==
    CASE body.json = "empty" -> "EOF"
      [] body.json = "invalid" -> "invalid character"
      [] OTHER -> ""

\* the Message field after decoding into struct{ Message string `json:"message"` }
DecodedMessage(body) == IF body.hasMessage THEN body.message ELSE ""

NoPredict == [called |-> FALSE, issued |-> FALSE, running |-> FALSE, status |-> 0,
              body |-> EmptyBody, resp |-> "nil", err |-> NoError]

\* Start returns err to its caller
StartReturns(res) ==
    /\ pc' = "idle"
    /\ startResult' = res
    /\ lifecycle' = IF res = "ok" THEN "Running" ELSE "Failed"

\* predictor.go:47-52  Start: p.port, err = shell.NextFreePort(...)
\* (a failed NextFreePort returns the zero port with its error)
Start_NextFreePort ==
    /\ pc = "idle"
    /\ starts < MaxStarts
    /\ starts' = starts + 1
    /\ iter' = 0 /\ probeIter' = 0 /\ elapsed' = 0 /\ iterStart' = 0
    /\ lastInspect' = "none" /\ lastProbe' = NoProbe /\ exitSeen' = FALSE
    /\ \/ \E p \in FreePorts :
            /\ port' = p
            /\ pc' = "run"
            /\ startResult' = "none"
            /\ lifecycle' = "Starting"
       \/ /\ port' = 0
          /\ StartReturns("PortErr")
    /\ stopResult' = "none"
    /\ predictResult' = NoPredict
    /\ UNCHANGED <<containerID, ports, cstate, logTask, warned>>
    /\ startCalls' = <<"port">>
    /\ UNCHANGED svars

\* predictor.go:54-61  append the port mapping, p.containerID, err = docker.RunDaemon
\* (a failed RunDaemon returns the empty ID with its error)
Start_RunDaemon_DropsID ==
    /\ pc = "run"
    /\ ports' = Append(ports, port)
    /\ \/ \E c \in ContainerIDs :
            /\ cstate[c] = "none"
            /\ \A d \in ContainerIDs : d < c => cstate[d] # "none"
            /\ UNCHANGED containerID
            /\ cstate' = [cstate EXCEPT ![c] = "running"]
            /\ pc' = "spawn"
            /\ UNCHANGED <<startResult, lifecycle>>
       \/ /\ containerID' = 0
          /\ StartReturns("StartErr")
          /\ UNCHANGED cstate
    /\ UNCHANGED <<port, elapsed, iterStart, iter, probeIter, lastInspect, lastProbe,
                   exitSeen, starts, logTask, warned, stopResult, predictResult>>
    /\ startCalls' = Append(startCalls, "run")
    /\ UNCHANGED svars
Start_RunDaemon ==
    /\ pc = "run"
    /\ ports' = Append(ports, port)
    /\ \/ \E c \in ContainerIDs :
            /\ cstate[c] = "none"
            /\ \A d \in ContainerIDs : d < c => cstate[d] # "none"
            /\ containerID' = c
            /\ cstate' = [cstate EXCEPT ![c] = "running"]
            /\ pc' = "spawn"
            /\ UNCHANGED <<startResult, lifecycle>>
       \/ /\ containerID' = 0
          /\ StartReturns("StartErr")
          /\ UNCHANGED cstate
    /\ UNCHANGED <<port, elapsed, iterStart, iter, probeIter, lastInspect, lastProbe,
                   exitSeen, starts, logTask, warned, stopResult, predictResult>>
    /\ startCalls' = Append(startCalls, "run")
    /\ UNCHANGED svars

\* predictor.go:62-68, 72-74  go func() { ContainerLogsFollow }; start := time.Now()
Start_SpawnLogs ==
    /\ pc = "spawn"
    /\ logTask' = "following"
    /\ elapsed' = 0
    /\ pc' = "check"
    /\ UNCHANGED <<port, containerID, ports, cstate, iterStart, iter, probeIter,
                   lastInspect, lastProbe, exitSeen, starts, startResult, lifecycle,
                   warned, stopResult, predictResult>>
    /\ startCalls' = Append(startCalls, "logs")
    /\ UNCHANGED svars

\* predictor.go:75-79  now := time.Now(); if now.Sub(start) > StartupTimeout return
Wait_CheckDeadline_StopsContainer ==
    /\ pc = "check"
    /\ iter' = iter + 1
    /\ iterStart' = elapsed
    /\ IF DeadlinePassed(elapsed)
          THEN /\ StartReturns("Timeout")
               /\ cstate' = [cstate EXCEPT ![containerID] = "exited"]
          ELSE /\ pc' = "sleep"
               /\ UNCHANGED <<startResult, lifecycle, cstate>>
    /\ UNCHANGED <<port, containerID, ports, elapsed, probeIter, lastInspect,
                   lastProbe, exitSeen, starts, logTask, warned, stopResult,
                   predictResult>>
    /\ UNCHANGED startCalls
    /\ UNCHANGED svars
Wait_CheckDeadline ==
    /\ pc = "check"
    /\ iter' = iter + 1
    /\ iterStart' = elapsed
    /\ IF DeadlinePassed(elapsed)
          THEN StartReturns("Timeout")
          ELSE /\ pc' = "sleep"
               /\ UNCHANGED <<startResult, lifecycle>>
    /\ UNCHANGED <<port, containerID, ports, cstate, elapsed, probeIter, lastInspect,
                   lastProbe, exitSeen, starts, logTask, warned, stopResult,
                   predictResult>>
    /\ UNCHANGED startCalls
    /\ UNCHANGED svars

\* predictor.go:81  time.Sleep(100 * time.Millisecond)
Wait_Sleep ==
    /\ pc = "sleep"
    /\ elapsed' = Min(elapsed + SleepTicks, MaxElapsed)
    /\ pc' = "inspect"
    /\ UNCHANGED <<port, containerID, ports, cstate, iterStart, iter, probeIter,
                   lastInspect, lastProbe, exitSeen, starts, startResult, lifecycle,
                   logTask, warned, stopResult, predictResult>>
    /\ UNCHANGED startCalls
    /\ UNCHANGED svars

\* what docker.ContainerInspect can report of container c: an error, a
\* result whose State is nil, or the container's status
InspectReports(c) == {"err", "nil", cstate[c]}

\* predictor.go:83-89  cont, err := docker.ContainerInspect(p.containerID)
Wait_Inspect_RetriesOnError ==
    /\ pc = "inspect"
    /\ \E report \in InspectReports(containerID) :
          /\ lastInspect' = report
          /\ IF report = "err"
                THEN /\ pc' = "check"
                     /\ UNCHANGED <<startResult, lifecycle>>
                ELSE IF HasCrashed(report)
                        THEN StartReturns("Crashed")
                        ELSE /\ pc' = "probe"
                             /\ UNCHANGED <<startResult, lifecycle>>
    /\ UNCHANGED <<port, containerID, ports, cstate, elapsed, iterStart, iter,
                   probeIter, lastProbe, exitSeen, starts, logTask, warned,
                   stopResult, predictResult>>
    /\ startCalls' = Append(startCalls, "inspect")
    /\ UNCHANGED svars
Wait_Inspect ==
    /\ pc = "inspect"
    /\ \E report \in InspectReports(containerID) :
          /\ lastInspect' = report
          /\ IF report = "err"
                THEN StartReturns("InspectErr")
                ELSE IF HasCrashed(report)
                        THEN StartReturns("Crashed")
                        ELSE /\ pc' = "probe"
                             /\ UNCHANGED <<startResult, lifecycle>>
    /\ UNCHANGED <<port, containerID, ports, cstate, elapsed, iterStart, iter,
                   probeIter, lastProbe, exitSeen, starts, logTask, warned,
                   stopResult, predictResult>>
    /\ startCalls' = Append(startCalls, "inspect")
    /\ UNCHANGED svars

\* predictor.go:91  resp, err := http.Get(url): the request is sent
Wait_ProbeSend ==
    /\ pc = "probe"
    /\ pc' = "probing"
    /\ probeIter' = iter
    /\ UNCHANGED <<port, containerID, ports, cstate, elapsed, iterStart, iter,
                   lastInspect, lastProbe, exitSeen, starts, startResult, lifecycle,
                   logTask, warned, stopResult, predictResult>>
    /\ startCalls' = Append(startCalls, "probe")
    /\ UNCHANGED svars

\* what the container can answer on its root path: a connection failure (err
\* non-nil, no status), or a status code, which only a running container can send
ProbeOutcomes(c) ==
    {ConnErr} \cup (IF cstate[c] = "running" THEN {200, 503} ELSE {})

\* predictor.go:91-98  http.Get returns: continue on err or non-200, else return nil
Wait_ProbeReturn ==
    /\ pc = "probing"
    /\ \E outcome \in ProbeOutcomes(containerID) :
          /\ lastProbe' = outcome
          /\ IF outcome # ConnErr /\ ProbeReady(outcome)
                THEN StartReturns("ok")
                ELSE /\ pc' = "check"
                     /\ UNCHANGED <<startResult, lifecycle>>
    /\ UNCHANGED <<port, containerID, ports, cstate, elapsed, iterStart, iter,
                   probeIter, lastInspect, exitSeen, starts, logTask, warned,
                   stopResult, predictResult>>
    /\ UNCHANGED startCalls
    /\ UNCHANGED svars

\* wall-clock time passes while the loop runs (a call in flight takes time)
Tick ==
    /\ pc \in LoopPcs
    /\ elapsed < MaxElapsed
    /\ elapsed' = elapsed + 1
    /\ UNCHANGED <<pc, port, containerID, ports, cstate, iterStart, iter, probeIter,
                   lastInspect, lastProbe, exitSeen, starts, startResult, lifecycle,
                   logTask, warned, stopResult, predictResult>>
    /\ UNCHANGED startCalls
    /\ UNCHANGED svars

\* the container process exits or is killed, at any moment
ContainerExit ==
    /\ \E c \in ContainerIDs, s \in {"exited", "dead"} :
          /\ cstate[c] = "running"
          /\ cstate' = [cstate EXCEPT ![c] = s]
          /\ exitSeen' = (exitSeen \/ (c = containerID /\ pc \in StartPcs))
    /\ UNCHANGED <<pc, port, containerID, ports, elapsed, iterStart, iter, probeIter,
                   lastInspect, lastProbe, starts, startResult, lifecycle, logTask,
                   warned, stopResult, predictResult>>
    /\ UNCHANGED startCalls
    /\ UNCHANGED svars

\* predictor.go:63-67  ContainerLogsFollow returns: nil, or an error that is warned
LogTaskEnds_FailsStart ==
    /\ logTask = "following"
    /\ \/ /\ logTask' = "ended"
          /\ UNCHANGED <<warned, pc, startResult, lifecycle>>
       \/ /\ logTask' = "failed"
          /\ warned' = TRUE
          /\ IF pc \in LoopPcs
                THEN StartReturns("LogErr")
                ELSE UNCHANGED <<pc, startResult, lifecycle>>
    /\ UNCHANGED <<port, containerID, ports, cstate, elapsed, iterStart, iter,
                   probeIter, lastInspect, lastProbe, exitSeen, starts,
                   stopResult, predictResult>>
    /\ UNCHANGED startCalls
    /\ UNCHANGED svars
LogTaskEnds ==
    /\ logTask = "following"
    /\ \/ logTask' = "ended" /\ UNCHANGED warned
       \/ logTask' = "failed" /\ warned' = TRUE
    /\ UNCHANGED <<pc, port, containerID, ports, cstate, elapsed, iterStart, iter,
                   probeIter, lastInspect, lastProbe, exitSeen, starts, startResult,
                   lifecycle, stopResult, predictResult>>
    /\ UNCHANGED startCalls
    /\ UNCHANGED svars

\* predictor.go:102-104  Stop: return docker.Stop(p.containerID)
Stop ==
    /\ pc = "idle"
    /\ IF containerID # 0 /\ cstate[containerID] = "running"
          THEN \/ /\ cstate' = [cstate EXCEPT ![containerID] = "exited"]
                  /\ stopResult' = "ok"
               \/ /\ UNCHANGED cstate
                  /\ stopResult' = "err"
          ELSE /\ UNCHANGED cstate
               /\ stopResult' \in (IF containerID = 0 THEN {"err"} ELSE {"ok", "err"})
    /\ lifecycle' = IF lifecycle = "Running" THEN "Stopped" ELSE lifecycle
    /\ predictResult' = NoPredict
    /\ UNCHANGED <<pc, port, containerID, ports, elapsed, iterStart, iter, probeIter,
                   lastInspect, lastProbe, exitSeen, starts, startResult, logTask,
                   warned>>
    /\ UNCHANGED startCalls
    /\ UNCHANGED svars

\* ----------------------------------------------------------------- Predict
\* predictor.go:133-144  the branch for http.StatusBadRequest
BadRequestError(body) ==
    IF DecodeError(body) # ""
       THEN ErrBadRequestDecode(DecodeError(body))
       ELSE IF DecodedMessage(body) = ""
               THEN ErrBadRequest
               ELSE ErrBadRequestMsg(DecodedMessage(body))

\* predictor.go:133-155  what Predict returns for a response: <<resp, err>>
Classify(status, body) ==
    IF status = 400
       THEN <<"nil", BadRequestError(body)>>
       ELSE IF status # 200
               THEN <<"nil", ErrStatus(status)>>
               ELSE IF DecodeError(body) # ""
                       THEN <<"nil", ErrDecodePrediction(DecodeError(body))>>
                       ELSE <<"prediction", NoError>>

\* what the POST to localhost:port can come back with: a connection failure,
\* or a response, which only the running container of this Predictor sends
CanRespond == port # 0 /\ containerID # 0 /\ cstate[containerID] = "running"

\* predictor.go:106-155  Predict
Predict ==
    /\ pc = "idle"
    /\ \/ \E e \in {ErrToMap, ErrMarshal, ErrNewRequest("url")} :
            predictResult' = [NoPredict EXCEPT !.called = TRUE,
                                !.running = (lifecycle = "Running"), !.err = e]
       \/ predictResult' = [NoPredict EXCEPT !.called = TRUE, !.issued = TRUE,
                              !.running = (lifecycle = "Running"),
                              !.err = ErrPost("url")]
       \/ /\ CanRespond
          /\ \E status \in PredictStatuses, body \in Bodies :
                predictResult' = [called |-> TRUE, issued |-> TRUE,
                                  running |-> (lifecycle = "Running"),
                                  status |-> status, body |-> body,
                                  resp |-> Classify(status, body)[1],
                                  err |-> Classify(status, body)[2]]
    /\ stopResult' = "none"
    /\ UNCHANGED <<pc, port, containerID, ports, cstate, elapsed, iterStart, iter,
                   probeIter, lastInspect, lastProbe, exitSeen, starts, startResult,
                   lifecycle, logTask, warned>>
    /\ UNCHANGED startCalls
    /\ UNCHANGED svars

\* ------------------------------------------------------------ upload data
\* A bundle is its bytes.  What the zip and yaml libraries make of the bytes
\* is a function of the bytes: byte 1 tells a zip archive (1) from other
\* data, byte 2 is the replicate.yaml entry (absent, 0 for text that is not
\* yaml, else the configured name), later bytes are other entries.
Bundles == {<<9>>, <<1>>, <<1, 0>>, <<1, 2>>, <<1, 2, 7>>, <<1, 3>>}
IsZip(b) == Len(b) >= 1 /\ b[1] = 1
HasConfig(b) == Len(b) >= 2
ConfigParses(b) == b[2] # 0
ConfigName(b) == IF b[2] = 2 THEN "alpha" ELSE "beta"

\* what else can fail while ReceiveModel reads the request
EnvFailures == {"none", "copy", "tempdir", "srcdir", "unzip"}
\* the request as received: not multipart, multipart without a "file" part,
\* or multipart with the bundle in "file"
Forms == {"badform", "nofile", "file"}

\* server.go:75-79  sha1.New(), io.Copy(hasher, file), fmt.Sprintf("%x", Sum):
\* the digest is a fold of the bytes written, a short stand-in for SHA-1
Sha1New == 7
RECURSIVE HashWrite(_, _)
HashWrite(h, bytes) ==
    IF bytes = << >> THEN h
    ELSE HashWrite((h * 31 + Head(bytes)) % 256, Tail(bytes))
HexDigits == <<"0", "1", "2", "3", "4", "5", "6", "7",
               "8", "9", "a", "b", "c", "d", "e", "f">>
Hex(n) == <<HexDigits[(n \div 16) + 1], HexDigits[(n % 16) + 1]>>

\* what a Read loop gets from a file handle positioned at pos
ReadToEnd(bytes, pos) == SubSeq(bytes, pos + 1, Len(bytes))

\* server.go:107  dockerTag
Registry == "us-central1-docker.pkg.dev/replicate/andreas-scratch/"
DockerTag(name, hash) == <<Registry, name, ":">> \o hash
\* server.go:120  gcsPath
GcsPath(name, hash) == <<name, "/">> \o hash \o <<".zip">>

ErrParseRequest == <<"Failed to parse request: ", "multipart">>
ErrComputeHash == <<"Failed to compute hash: ", "read">>
ErrReadZip == <<"Failed to read zip file: ", "zip">>
ErrTempdir == <<"Failed to make tempdir: ", "mkdir">>
ErrSourceDir == <<"Failed to make source dir: ", "mkdir">>
ErrUnzip == <<"Failed to unzip: ", "unzip">>
ErrReadConfig == <<"Failed to read config yaml: ", "open">>
ErrParseConfig == <<"Failed to parse config yaml: ", "yaml">>
ErrBuild == <<"Failed to build Docker image: ", "build">>
ErrDeploy == <<"deploy">>
ErrUpload == <<"Failed to upload to storage: ", "upload">>
ErrInsert == <<"Failed to insert into database: ", "insert">>

NewRequest ==
    [pc |-> "new", allowed |-> FALSE, form |-> "none", bundle |-> << >>,
     pos |-> 0, hash |-> << >>, name |-> "", tag |-> << >>, path |-> << >>,
     calls |-> << >>, stored |-> << >>, tagOut |-> << >>, err |-> NoError,
     http |-> 0]

\* a new Predictor (NewPredictor) and a new Server with no request received
Init ==
    /\ pc = "idle"
    /\ port = 0
    /\ containerID = 0
    /\ ports = << >>
    /\ cstate = [c \in ContainerIDs |-> "none"]
    /\ elapsed = 0
    /\ iterStart = 0
    /\ iter = 0
    /\ probeIter = 0
    /\ lastInspect = "none"
    /\ lastProbe = NoProbe
    /\ exitSeen = FALSE
    /\ starts = 0
    /\ startCalls = << >>
    /\ startResult = "none"
    /\ lifecycle = "Created"
    /\ logTask = "none"
    /\ warned = FALSE
    /\ stopResult = "none"
    /\ predictResult = NoPredict
    /\ req = [r \in Uploads |-> NewRequest]
    /\ built = {}
    /\ deployed = {}
    /\ storage = {}
    /\ db = {}

\* server.go:56-65  ReceiveFile: the status written for what ReceiveModel returned
HandlerStatus(err) == IF err # NoError THEN 500 ELSE 200

\* ReceiveModel returns (tag, err) and ReceiveFile answers
Returned(rec, tag, err) ==
    [rec EXCEPT !.pc = "done", !.tagOut = tag, !.err = err,
                !.http = HandlerStatus(err)]

\* server.go:75-79  the hash of the upload: a new hasher fed the whole file
UploadHash_WithRequestData(r, bytes) == Hex(HashWrite(Sha1New, Append(bytes, r)))
UploadHash(r, bytes) == Hex(HashWrite(Sha1New, ReadToEnd(bytes, 0)))

\* server.go:76-105  the first error on the way from the file to the config,
\* NoError when the config is read
ReadError(bundle, env) ==
    IF env = "copy" THEN ErrComputeHash
    ELSE IF ~IsZip(bundle) THEN ErrReadZip
    ELSE IF env = "tempdir" THEN ErrTempdir
    ELSE IF env = "srcdir" THEN ErrSourceDir
    ELSE IF env = "unzip" THEN ErrUnzip
    ELSE IF ~HasConfig(bundle) THEN ErrReadConfig
    ELSE IF ~ConfigParses(bundle) THEN ErrParseConfig
    ELSE NoError

\* server.go:67-107  ReceiveModel up to dockerTag.  A request without a "file"
\* part leaves file nil (the error of FormFile is dropped), and
\* defer file.Close() panics; net/http recovers and writes no status.
ReceiveModel_Read(r) ==
    /\ req[r].pc = "new"
    /\ \E form \in Forms, allowed \in BOOLEAN, bundle \in Bundles, env \in EnvFailures :
          LET in == [req[r] EXCEPT !.form = form, !.allowed = allowed,
                                   !.bundle = IF form = "file" THEN bundle ELSE << >>]
              hash == UploadHash(r, bundle)
              name == ConfigName(bundle)
              read == [in EXCEPT !.pos = Len(bundle), !.hash = hash]
          IN  /\ form # "file" => (bundle = <<9>> /\ env = "none")
              /\ req' = [req EXCEPT ![r] =
                    IF form = "badform" THEN Returned(in, << >>, ErrParseRequest)
                    ELSE IF form = "nofile" THEN [in EXCEPT !.pc = "panicked"]
                    ELSE IF env = "copy" THEN Returned(in, << >>, ErrComputeHash)
                    ELSE IF ReadError(bundle, env) # NoError
                         THEN Returned(read, << >>, ReadError(bundle, env))
                    ELSE [read EXCEPT !.pc = "build", !.name = name,
                                      !.tag = DockerTag(name, hash)]]
    /\ UNCHANGED <<built, deployed, storage, db>>
    /\ UNCHANGED pvars

\* a collaborator call of request r, with its outcome
Called(rec, stage, ok) == [rec EXCEPT !.calls = Append(@, [stage |-> stage, ok |-> ok])]

\* server.go:109-111  s.cloudbuild.Submit(dir, hash, dockerTag, cpu)
ReceiveModel_Submit_SkipsBuiltImage(r) ==
    /\ req[r].pc = "build"
    /\ IF req[r].tag \in built
          THEN /\ req' = [req EXCEPT ![r].pc = "deploy"]
               /\ UNCHANGED built
          ELSE \E ok \in BOOLEAN :
                 IF ok
                    THEN /\ built' = built \cup {req[r].tag}
                         /\ req' = [req EXCEPT ![r] =
                               [Called(@, "build", TRUE) EXCEPT !.pc = "deploy"]]
                    ELSE /\ UNCHANGED built
                         /\ req' = [req EXCEPT ![r] =
                               Returned(Called(@, "build", FALSE), << >>, ErrBuild)]
    /\ UNCHANGED <<deployed, storage, db>>
    /\ UNCHANGED pvars
ReceiveModel_Submit(r) ==
    /\ req[r].pc = "build"
    /\ \E ok \in BOOLEAN :
          IF ok
             THEN /\ built' = built \cup {req[r].tag}
                  /\ req' = [req EXCEPT ![r] = [Called(@, "build", TRUE) EXCEPT !.pc = "deploy"]]
             ELSE /\ UNCHANGED built
                  /\ req' = [req EXCEPT ![r] = Returned(Called(@, "build", FALSE), << >>, ErrBuild)]
    /\ UNCHANGED <<deployed, storage, db>>
    /\ UNCHANGED pvars

\* server.go:113-115  s.ai.Deploy(dockerTag, hash)
ReceiveModel_Deploy_IgnoresError(r) ==
    /\ req[r].pc = "deploy"
    /\ \E ok \in BOOLEAN :
          /\ deployed' = IF ok THEN deployed \cup {req[r].tag} ELSE deployed
          /\ req' = [req EXCEPT ![r] = [Called(@, "deploy", ok) EXCEPT !.pc = "store"]]
    /\ UNCHANGED <<built, storage, db>>
    /\ UNCHANGED pvars
ReceiveModel_Deploy(r) ==
    /\ req[r].pc = "deploy"
    /\ \E ok \in BOOLEAN :
          IF ok
             THEN /\ deployed' = deployed \cup {req[r].tag}
                  /\ req' = [req EXCEPT ![r] = [Called(@, "deploy", TRUE) EXCEPT !.pc = "store"]]
             ELSE /\ UNCHANGED deployed
                  /\ req' = [req EXCEPT ![r] = Returned(Called(@, "deploy", FALSE), << >>, ErrDeploy)]
    /\ UNCHANGED <<built, storage, db>>
    /\ UNCHANGED pvars

\* what UploadToStorage writes: the bytes it reads from the file handle it is
\* given, from the handle's position to the end
StorageObjectBytes(bytes, pos) == ReadToEnd(bytes, pos)

\* the bucket after an object is written to path
PutObject(path, bytes) ==
    {o \in storage : o.path # path} \cup {[path |-> path, bytes |-> bytes]}

\* server.go:119-123  UploadToStorage(file, gcsPath): the object gets what is
\* left to read from the file handle
ReceiveModel_UploadToStorage_UndeploysOnError(r) ==
    /\ req[r].pc = "store"
    /\ \E ok \in BOOLEAN :
          LET path == GcsPath(req[r].name, req[r].hash) IN
          IF ok
             THEN /\ storage' = PutObject(path, StorageObjectBytes(req[r].bundle, req[r].pos))
                  /\ UNCHANGED deployed
                  /\ req' = [req EXCEPT ![r] =
                        [Called(@, "storage", TRUE) EXCEPT
                            !.pc = "insert", !.path = path,
                            !.stored = StorageObjectBytes(req[r].bundle, req[r].pos),
                            !.pos = Len(req[r].bundle)]]
             ELSE /\ UNCHANGED storage
                  /\ deployed' = deployed \ {req[r].tag}
                  /\ req' = [req EXCEPT ![r] =
                        Returned([Called(@, "storage", FALSE) EXCEPT !.path = path],
                                 << >>, ErrUpload)]
    /\ UNCHANGED <<built, db>>
    /\ UNCHANGED pvars
ReceiveModel_UploadToStorage(r) ==
    /\ req[r].pc = "store"
    /\ \E ok \in BOOLEAN :
          LET path == GcsPath(req[r].name, req[r].hash) IN
          IF ok
             THEN /\ storage' = PutObject(path, StorageObjectBytes(req[r].bundle, req[r].pos))
                  /\ req' = [req EXCEPT ![r] =
                        [Called(@, "storage", TRUE) EXCEPT
                            !.pc = "insert", !.path = path,
                            !.stored = StorageObjectBytes(req[r].bundle, req[r].pos),
                            !.pos = Len(req[r].bundle)]]
             ELSE /\ UNCHANGED storage
                  /\ req' = [req EXCEPT ![r] =
                        Returned([Called(@, "storage", FALSE) EXCEPT !.path = path],
                                 << >>, ErrUpload)]
    /\ UNCHANGED <<built, deployed, db>>
    /\ UNCHANGED pvars

\* server.go:125-130  s.db.InsertModel(name, hash, gcsPath, dockerTag); return
ReceiveModel_InsertModel_IgnoresError(r) ==
    /\ req[r].pc = "insert"
    /\ \E ok \in BOOLEAN :
          /\ db' = IF ok THEN db \cup {[id |-> r, name |-> req[r].name, hash |-> req[r].hash,
                                        path |-> req[r].path, tag |-> req[r].tag]}
                         ELSE db
          /\ req' = [req EXCEPT ![r] =
                        Returned(Called(@, "database", ok), req[r].tag, NoError)]
    /\ UNCHANGED <<built, deployed, storage>>
    /\ UNCHANGED pvars
ReceiveModel_InsertModel(r) ==
    /\ req[r].pc = "insert"
    /\ \E ok \in BOOLEAN :
          IF ok
             THEN /\ db' = db \cup {[id |-> r, name |-> req[r].name, hash |-> req[r].hash,
                                     path |-> req[r].path, tag |-> req[r].tag]}
                  /\ req' = [req EXCEPT ![r] =
                        Returned(Called(@, "database", TRUE), req[r].tag, NoError)]
             ELSE /\ UNCHANGED db
                  /\ req' = [req EXCEPT ![r] =
                        Returned(Called(@, "database", FALSE), << >>, ErrInsert)]
    /\ UNCHANGED <<built, deployed, storage>>
    /\ UNCHANGED pvars

NextS ==
    \E r \in Uploads :
        \/ ReceiveModel_Read(r)
        \/ ReceiveModel_Submit(r)
        \/ ReceiveModel_Deploy(r)
        \/ ReceiveModel_UploadToStorage(r)
        \/ ReceiveModel_InsertModel(r)

SpecS == Init /\ [][NextS]_vars

\* ------------------------------------------------------ Predictor machines
NextP ==
    \/ Start_NextFreePort
    \/ Start_RunDaemon
    \/ Start_SpawnLogs
    \/ Wait_CheckDeadline
    \/ Wait_Sleep
    \/ Wait_Inspect
    \/ Wait_ProbeSend
    \/ Wait_ProbeReturn
    \/ Tick
    \/ ContainerExit
    \/ LogTaskEnds
    \/ Stop
    \/ Predict

SpecP == Init /\ [][NextP]_vars

\* The goroutine that called Start keeps running its own statements, the
\* calls to the local docker client return, and the clock advances.  Nothing
\* schedules the answer to the probe: http.Get uses the default client, which
\* sets no timeout, so a container that accepts the connection and sends
\* nothing keeps the caller in http.Get, and Wait_ProbeReturn is not fair.
FairSpecP ==
    /\ SpecP
    /\ WF_vars(Start_RunDaemon)
    /\ WF_vars(Start_SpawnLogs)
    /\ WF_vars(Wait_CheckDeadline)
    /\ WF_vars(Wait_Sleep)
    /\ WF_vars(Wait_Inspect)
    /\ WF_vars(Wait_ProbeSend)
    /\ WF_vars(Tick)

\* ------------------------------------------------------- Predictor claims

\* C1: if the container never answers 200 on its root path and never reaches
\* exited or dead, the readiness loop does not poll forever: once entered, it
\* eventually returns the timeout error.  (The executions in which an
\* inspection fails are left aside here: they end the loop at once with the
\* inspection error.)
C1_StartReturnsTimeout ==
    [](pc \in LoopPcs =>
         <>(\/ pc = "idle" /\ startResult = "Timeout"
            \/ lastProbe = 200
            \/ lastInspect = "err"
            \/ containerID # 0 /\ cstate[containerID] \in {"exited", "dead"}))

\* C2 as stated: whenever the launched container exited or died before Start
\* returned, Start returned the container-crashed error, and returned it
\* strictly before the startup deadline elapsed.
C2_CrashAlwaysReportedBeforeDeadline ==
    (pc = "idle" /\ exitSeen) =>
        (startResult = "Crashed" /\ elapsed < StartupTimeout)

\* C2 amended: an inspection of the readiness loop that finds the container
\* exited or dead makes Start return the container-crashed error at once, in
\* that iteration and without probing; Start returns that error only then,
\* for a container that did exit, in an iteration that began no later than
\* the startup deadline.
C2_CrashReportedAtInspection ==
    /\ lastInspect \in {"exited", "dead"} =>
          (pc = "idle" /\ startResult = "Crashed" /\ probeIter < iter)
    /\ startResult = "Crashed" =>
          /\ lastInspect \in {"exited", "dead"}
          /\ exitSeen
          /\ iterStart <= StartupTimeout

\* the container died during a later iteration and the next inspection saw it
C2_Witness ==
    startResult = "Crashed" /\ lastInspect = "dead" /\ iter >= 2 /\ probeIter = iter - 1

\* C3: a Predict call made while the Predictor is not Running is rejected with
\* an error and issues no HTTP request.
C3_PredictRejectedWhenNotRunning ==
    (predictResult.called /\ ~predictResult.running) =>
        (~predictResult.issued /\ predictResult.err # NoError)

\* C7: on HTTP 400, a body {"message": m} with non-empty m gives an error whose
\* text contains m, and an empty body gives the generic bad-request error, the
\* one a body without a message member gives.
C7_BadRequestMessage ==
    (predictResult.issued /\ predictResult.status = 400) =>
        /\ (predictResult.body.json = "object" /\ predictResult.body.hasMessage
              /\ predictResult.body.message # "") =>
                 Contains(predictResult.err, predictResult.body.message)
        /\ predictResult.body.json = "empty" =>
                 predictResult.err = BadRequestError(ObjectBody(FALSE, ""))

\* C8: a response is classified by its status code alone: 400 is a bad-request
\* error, any other non-200 status a protocol error carrying the status code,
\* and only a 200 whose body decodes gives a Response with a nil error; never
\* both a Response and an error, nor neither.
C8_ClassifiedByStatus ==
    predictResult.status # 0 =>
        /\ predictResult.status = 400 =>
              /\ predictResult.resp = "nil"
              /\ predictResult.err[1] \in {"Bad request", "Bad request: "}
        /\ predictResult.status \notin {200, 400} =>
              /\ predictResult.resp = "nil"
              /\ predictResult.err = ErrStatus(predictResult.status)
        /\ predictResult.resp = "prediction" =>
              (predictResult.status = 200 /\ DecodeError(predictResult.body) = "")
        /\ (predictResult.resp = "prediction") <=> (predictResult.err = NoError)

\* the call Start makes in place i of its sequence of external calls
StartCallAt(i) ==
    IF i = 1 THEN "port" ELSE IF i = 2 THEN "run" ELSE IF i = 3 THEN "logs"
    ELSE IF i % 2 = 0 THEN "inspect" ELSE "probe"

\* C11: Start returns success only if its last iteration inspected the
\* container, found it neither exited nor dead, and then got 200 from the
\* probe; a connection failure or a non-200 answer neither succeeds nor
\* fails Start, it leads to the next deadline check.
C11_SuccessNeeds200 ==
    /\ startResult = "ok" =>
          /\ lastProbe = 200
          /\ probeIter = iter
          /\ lastInspect \in {"nil", "running"}
          /\ Len(startCalls) >= 5
          /\ startCalls[Len(startCalls) - 1] = "inspect"
          /\ startCalls[Len(startCalls)] = "probe"
    /\ (lastProbe \notin {NoProbe, 200} /\ probeIter = iter /\ pc # "probing") =>
          (pc = "check" /\ startResult = "none")

\* Start succeeded in a later iteration, after probes that were not ready
C11_Witness == startResult = "ok" /\ iter >= 2 /\ lastProbe = 200

\* C12: the log-following goroutine never affects Start: when it ends or
\* fails, the caller's position, the result of Start and the Predictor's
\* fields stay as they are, a failure is only warned, and the readiness
\* loop's next step never waits for it.
C12_LogTaskNeverAffectsStart ==
    /\ [](pc \in {"check", "sleep", "inspect", "probe"} =>
             ENABLED (Wait_CheckDeadline \/ Wait_Sleep \/ Wait_Inspect \/ Wait_ProbeSend))
    /\ [][(logTask = "following" /\ logTask' # "following") =>
             /\ UNCHANGED <<pc, startResult, lifecycle, port, containerID, startCalls,
                            lastInspect, lastProbe, iter, elapsed>>
             /\ logTask' = "failed" => warned']_vars

\* the log stream failed while the readiness loop was waiting for the probe
C12_Witness == pc = "probing" /\ logTask = "failed" /\ warned /\ startResult = "none"

C17_FailuresReturnAtOnce ==
    /\ \A i \in 1..Len(startCalls) : startCalls[i] = StartCallAt(i)
    /\ startResult = "PortErr" => (pc = "idle" /\ startCalls = <<"port">>)
    /\ startResult = "StartErr" => (pc = "idle" /\ startCalls = <<"port", "run">>)
    /\ startResult = "InspectErr" =>
          (lastInspect = "err" /\ startCalls[Len(startCalls)] = "inspect")
    /\ lastInspect = "err" => (pc = "idle" /\ startResult = "InspectErr")

\* an inspection failed in the second iteration
C17_Witness ==
    startResult = "InspectErr" /\ Len(startCalls) = 6 /\ iter = 2

\* C19: a Start that fails in the readiness loop stops nothing: the container
\* states, the log goroutine and p.containerID are as they were, and the ID
\* is the launched container's.
C19_FailedStartLeavesContainer ==
    [][(pc \in LoopPcs /\ pc' = "idle" /\ startResult' # "ok") =>
          /\ cstate' = cstate
          /\ logTask' = logTask
          /\ containerID' = containerID
          /\ containerID # 0
          /\ port' = port]_vars

\* Start timed out with the container still running and its logs followed
C19_Witness ==
    /\ pc = "idle" /\ startResult = "Timeout"
    /\ cstate[containerID] = "running"
    /\ logTask = "following"

\* C20: whenever Start returned success, the time elapsed since the loop
\* began, when the 200 was received, did not exceed the startup deadline.
C20_SuccessWithinDeadline ==
    startResult = "ok" => elapsed <= StartupTimeout

\* ---------------------------------------------------------- server claims

\* C4: an upload whose caller the access check denies reaches no collaborator:
\* ImageBuilder, ServingPlatform, Storage and Database receive zero calls.
C4_DeniedCallerNoCalls ==
    \A r \in Uploads : ~req[r].allowed => req[r].calls = << >>

StageOrder == <<"build", "deploy", "storage", "database">>

\* C5: within one upload the stages are called in the order build, deploy,
\* storage, database, each only after every earlier one succeeded, and a
\* failed stage makes ReceiveModel return an error and no image tag.
C5_StagesInOrder ==
    \A r \in Uploads :
        LET c == req[r].calls IN
        /\ Len(c) <= Len(StageOrder)
        /\ \A i \in 1..Len(c) :
              /\ c[i].stage = StageOrder[i]
              /\ i < Len(c) => c[i].ok
        /\ (Len(c) > 0 /\ ~c[Len(c)].ok) =>
              (req[r].pc = "done" /\ req[r].tagOut = << >> /\ req[r].err # NoError)
        /\ (req[r].pc = "done" /\ req[r].err = NoError) =>
              (Len(c) = Len(StageOrder) /\ c[Len(c)].ok /\ req[r].tagOut = req[r].tag)

\* an upload whose storage stage failed after build and deploy succeeded
C5_Witness ==
    \E r \in Uploads :
        /\ Len(req[r].calls) = 3
        /\ ~req[r].calls[3].ok
        /\ req[r].pc = "done"
        /\ req[r].tag \in built /\ req[r].tag \in deployed

KnownHashes(name) == {row.hash : row \in {x \in db : x.name = name}}
Succeeded(r) == req[r].pc = "done" /\ req[r].err = NoError

\* C9: the hashes recorded for a repository are exactly the hashes of the
\* uploads to it that returned success.
C9_HashesOfSuccessfulUploads ==
    \A name \in {"alpha", "beta"} :
        KnownHashes(name) =
            {req[r].hash : r \in {u \in Uploads : Succeeded(u) /\ req[u].name = name}}

\* one upload failed at the database stage, another to the same repository,
\* of other bytes, succeeded
C9_Witness ==
    \E r1, r2 \in Uploads :
        /\ req[r1].pc = "done" /\ Len(req[r1].calls) = 4 /\ ~req[r1].calls[4].ok
        /\ Succeeded(r2)
        /\ req[r1].name = req[r2].name
        /\ req[r1].hash # req[r2].hash
        /\ KnownHashes(req[r2].name) = {req[r2].hash}

\* the calls of request r that succeeded at the given stage
StageDone(r, stage) ==
    \E i \in 1..Len(req[r].calls) : req[r].calls[i].stage = stage /\ req[r].calls[i].ok

\* C14: the status of the answer reflects the error class: 400 for a
\* malformed request, bundle or configuration, 500 for a build, deploy,
\* storage or database failure, 200 for success, with the image tag.
C14_StatusReflectsErrorClass ==
    \A r \in Uploads :
        req[r].pc = "done" =>
            /\ req[r].err \in {ErrParseRequest, ErrReadZip, ErrReadConfig, ErrParseConfig} =>
                  req[r].http = 400
            /\ req[r].err \in {ErrBuild, ErrDeploy, ErrUpload, ErrInsert} =>
                  req[r].http = 500
            /\ req[r].err = NoError =>
                  (req[r].http = 200 /\ req[r].tagOut = req[r].tag)

\* C15: what a completed stage did stays: the image built, the deployment,
\* the stored object and the row of every successful call are there in every
\* later state, also after a later stage of the upload failed, and no call
\* other than the four stages is made.
C15_NoRollback ==
    \A r \in Uploads :
        /\ \A i \in 1..Len(req[r].calls) :
              req[r].calls[i].stage \in {StageOrder[k] : k \in 1..Len(StageOrder)}
        /\ StageDone(r, "build") => req[r].tag \in built
        /\ StageDone(r, "deploy") => req[r].tag \in deployed
        /\ StageDone(r, "storage") => \E o \in storage : o.path = req[r].path
        /\ StageDone(r, "database") => \E row \in db : row.id = r

\* an upload failed at the database stage; its image, deployment and object remain
C15_Witness ==
    \E r \in Uploads :
        /\ req[r].pc = "done" /\ req[r].err = ErrInsert
        /\ req[r].tag \in built /\ req[r].tag \in deployed
        /\ \E o \in storage : o.path = req[r].path

\* C16: the object a successful storage upload writes holds the complete
\* bundle, from its first byte to its last.
C16_StoredBytesAreBundle ==
    \A r \in Uploads :
        StageDone(r, "storage") =>
            (req[r].stored = req[r].bundle
               /\ \E o \in storage : o.path = req[r].path /\ o.bytes = req[r].bundle)

\* C18: uploads of the same bundle handled concurrently are not deduplicated
\* and do not disturb each other: every upload past a stage made its own call
\* of that stage, uploads of the same bytes use the same tag and path, and
\* the images, deployments and objects are those of the successful calls,
\* one object per path, whatever the interleaving.
C18_ConcurrentUploadsNotDeduplicated ==
    /\ \A r \in Uploads :
          /\ req[r].pc \in {"deploy", "store", "insert"} => StageDone(r, "build")
          /\ req[r].pc \in {"store", "insert"} => StageDone(r, "deploy")
          /\ Succeeded(r) => (StageDone(r, "build") /\ StageDone(r, "deploy"))
    /\ \A r1, r2 \in Uploads :
          (req[r1].bundle = req[r2].bundle /\ req[r1].tag # << >> /\ req[r2].tag # << >>) =>
              /\ req[r1].tag = req[r2].tag
              /\ GcsPath(req[r1].name, req[r1].hash) = GcsPath(req[r2].name, req[r2].hash)
    /\ built = {req[r].tag : r \in {u \in Uploads : StageDone(u, "build")}}
    /\ deployed = {req[r].tag : r \in {u \in Uploads : StageDone(u, "deploy")}}
    /\ storage = {[path |-> req[r].path, bytes |-> req[r].stored] :
                     r \in {u \in Uploads : StageDone(u, "storage")}}
    /\ \A o1, o2 \in storage : o1.path = o2.path => o1 = o2

\* two uploads of the same bytes in flight at once, each with its own build
C18_Witness ==
    \E r1, r2 \in Uploads :
        /\ r1 # r2
        /\ req[r1].bundle = req[r2].bundle
        /\ req[r1].pc = "deploy" /\ req[r2].pc = "store"
        /\ StageDone(r1, "build") /\ StageDone(r2, "build")

\* server.go:67-107  an upload that could not be processed: ReceiveModel left
\* the request without reaching the image tag
Unprocessable(r) == req[r].pc # "new" /\ req[r].tag = << >>

\* C21: every upload that cannot be processed ends with ReceiveModel
\* returning an error and the handler answering with a status other than 200,
\* with no collaborator called; so does a multipart request that has no
\* "file" part.
C21_UnprocessableEndsWithError ==
    \A r \in Uploads :
        Unprocessable(r) =>
            /\ req[r].pc = "done"
            /\ req[r].err # NoError
            /\ req[r].http \notin {0, 200}
            /\ req[r].calls = << >>

====
